---- MODULE Spec2Model ----
(***************************************************************************)
(* MsABON: discovery of MS SQL tables/views, route registration, the       *)
(* OpenAPI document and the per-connection retry loop.                     *)
(*                                                                         *)
(* Strings that the code splits or concatenates (endpoint names, table     *)
(* names, schema names, paths) are sequences of tokens: a token is either  *)
(* the separator "_" or "/" or a non-empty run of other characters.        *)
(***************************************************************************)
EXTENDS Integers, Sequences, FiniteSets, TLC

VARIABLES
  connections,  \* cfg.connections, loaded once by start()
  generator,    \* which copy of the generator module the server loaded
  status,       \* per target: position of its current attempt
  attempt,      \* per target: the `attempt` argument of the running call
  disc,         \* per target: objects handled so far by setupDynamicRoutes
  acc,          \* per target: openApiSchemas of the running discovery pass
  pools,        \* connection pools opened so far (never closed by the code)
  timers,       \* pending setTimeout callbacks
  routes,       \* the express app: per (method, path) the handlers, in order
  schemas,      \* components.schemas
  paths,        \* openApi.paths
  rows,         \* the databases: per object the rows of the table
  nextKey,      \* the databases: per object the last generated key
  resp,         \* the last HTTP response sent (with the request it answers)
  input,        \* the argument a function of the generator is applied to
  output,       \* what the function returned for it
  exec,         \* the statement batches in flight on pooled connections
  holders       \* the databases: per scope the temporary table #out

vars == <<connections, generator, status, attempt, disc, acc, pools, timers,
          routes, schemas, paths, rows, nextKey, resp, input, output, exec,
          holders>>

supVars == <<status, attempt, disc, acc, pools, timers, routes, schemas, paths>>
dbVars == <<rows, nextKey, resp>>
sideVars == <<input, output, exec, holders>>

----------------------------------------------------------------------------
\* Bounds of the model

MaxAttempts == 2

MaxKey == 2

MaxFilterLen == 3

ListRows == 5

MaxInFlight == 2

----------------------------------------------------------------------------
\* Values

EmptyFcn == [x \in {} |-> x]

NoInput == [fn |-> "none"]

NoOutput == [fn |-> "none"]

NoCol == "-"

NoAmount == -1

NoRow == [key |-> 0, name |-> "-", amount |-> NoAmount]

Endpoint(s) == [set |-> TRUE, str |-> s]

NoEndpoint == [set |-> FALSE, str |-> <<>>]

Obj(schema, table, type, pk, trig, keygen) ==
  [schema |-> schema, table |-> table, type |-> type,
   columns |-> IF pk = <<>> THEN <<"Name">> ELSE pk \o <<"Name">>,
   pk |-> pk, trig |-> trig, keygen |-> keygen, scale |-> 0]

\* catalog objects used by the configurations
Employees == Obj(<<"dbo">>, <<"Employees">>, "BASE TABLE", <<"Id">>, FALSE, "identity")
AuditLog == Obj(<<"dbo">>, <<"AuditLog">>, "BASE TABLE", <<"LogId">>, TRUE, "default")
Orders == Obj(<<"dbo">>, <<"Orders">>, "BASE TABLE", <<"OrderId">>, TRUE, "identity")
Codes == Obj(<<"dbo">>, <<"Codes">>, "BASE TABLE", <<"Code">>, FALSE, "none")
Notes == Obj(<<"dbo">>, <<"MI", "_", "Notes">>, "BASE TABLE", <<>>, FALSE, "none")
ActiveStaff == Obj(<<"dbo">>, <<"ActiveStaff">>, "VIEW", <<>>, TRUE, "none")

\* objects whose names meet: a table Orders in a second schema of the same
\* database, and a view ep_Orders of another database
SalesOrders == Obj(<<"sales">>, <<"Orders">>, "BASE TABLE", <<>>, FALSE, "none")
EpOrders == Obj(<<"dbo">>, <<"ep", "_", "Orders">>, "VIEW", <<>>, FALSE, "none")

\* a table with a column Amount declared decimal(10,5): scale is the number
\* of fractional digits the column stores
Prices ==
  [Obj(<<"dbo">>, <<"Prices">>, "BASE TABLE", <<"Id">>, FALSE, "identity")
     EXCEPT !.columns = <<"Id", "Amount">>, !.scale = 5]

Conn(endpoint, objects) == [endpoint |-> endpoint, objects |-> objects]

\* configurations with two connections (the supervisor's behaviours)
Configs ==
  { <<Conn(Endpoint(<<"hr">>), <<Employees, ActiveStaff>>),
      Conn(NoEndpoint, <<AuditLog, Notes>>)>>,
    <<Conn(Endpoint(<<"my", "_", "ep">>), <<Notes, Orders>>),
      Conn(Endpoint(<<"hr">>), <<ActiveStaff>>)>>,
    <<Conn(Endpoint(<<"my", "_", "ep">>), <<Orders, SalesOrders>>),
      Conn(Endpoint(<<"my">>), <<EpOrders>>)>> }

\* configurations with one connection (the request handlers' behaviours)
ReqConfigs ==
  { <<Conn(Endpoint(<<"hr">>), <<Employees>>)>>,
    <<Conn(Endpoint(<<"hr">>), <<AuditLog>>)>>,
    <<Conn(Endpoint(<<"hr">>), <<Orders>>)>>,
    <<Conn(Endpoint(<<"hr">>), <<Codes, ActiveStaff>>)>>,
    <<Conn(NoEndpoint, <<Notes>>)>>,
    <<Conn(Endpoint(<<"hr">>), <<Prices>>)>> }

Generators == {"src/generator.js", "part_000"}

Targets == 1..Len(connections)

Objects(t) == connections[t].objects

ObjIds == UNION {{<<t, k>> : k \in 1..Len(Objects(t))} : t \in Targets}

----------------------------------------------------------------------------
\* Names and paths

\* c.endpoint || 'api'
EndpointOrApi(c) ==
  IF c.endpoint.set /\ c.endpoint.str # <<>> THEN c.endpoint.str ELSE <<"api">>

\* `${endpointConfig.endpoint}` in a template literal
Interpolate(e) == IF e.set THEN e.str ELSE <<"undefined">>

\* `/${endpoint}/${table}`
RouteBase(endpoint, table) == <<"/">> \o endpoint \o <<"/">> \o table

\* `${endpointConfig.endpoint}_${table}`
SchemaName(c, table) == Interpolate(c.endpoint) \o <<"_">> \o table

HasUnderscore(name) == \E i \in 1..Len(name) : name[i] = "_"

FirstUnderscore(name) ==
  CHOOSE i \in 1..Len(name) :
    name[i] = "_" /\ \A j \in 1..(i - 1) : name[j] # "_"

\* name.split('_'): parts[0] and parts.slice(1).join('_')
DocBase(name) ==
  IF HasUnderscore(name)
  THEN RouteBase(SubSeq(name, 1, FirstUnderscore(name) - 1),
                 SubSeq(name, FirstUnderscore(name) + 1, Len(name)))
  ELSE RouteBase(name, <<>>)

----------------------------------------------------------------------------
\* Catalog Inspector and the metadata a handler closes over

\* hasEnabledTriggers: sys.triggers joined with sys.tables (tables only)
hasEnabledTriggers(o) == o.type = "BASE TABLE" /\ o.trig

\* getIdentityColumn: sys.identity_columns joined with sys.tables
getIdentityColumn(o) ==
  IF o.type = "BASE TABLE" /\ o.keygen = "identity" THEN o.pk[1] ELSE NoCol

\* getPrimaryKey, skipped for views ("Views are read-only; skip PK lookup")
PkOf(o) == IF o.type = "VIEW" THEN <<>> ELSE o.pk

\* const meta = { schema, table, columns, pk, pool, isView, hasTriggers, identity }
\* (src/generator.js builds it without hasTriggers and identity: both are
\* undefined there, which every handler reads as false / none)
TableMeta(gen, t, k, att) ==
  LET o == Objects(t)[k]
  IN [target |-> t, obj |-> k, pool |-> [target |-> t, attempt |-> att],
      schema |-> o.schema, table |-> o.table, columns |-> o.columns,
      pk |-> PkOf(o), isView |-> (o.type = "VIEW"),
      hasTriggers |-> (gen = "part_000" /\ hasEnabledTriggers(o)),
      identity |-> IF gen = "part_000" THEN getIdentityColumn(o) ELSE NoCol]

\* const pk = tableMeta.pk && tableMeta.pk[0]  (as a truth value)
HasPk(meta) == meta.pk # <<>>

RouteKey(method, base, keyed) == [method |-> method, base |-> base, keyed |-> keyed]

\* a plausible slip: the write routes guarded by "not a view" only
RouteKeys_NoPkCheck(meta, endpoint) ==
  LET base == RouteBase(endpoint, meta.table)
  IN {RouteKey("get", base, FALSE)} \cup
     (IF ~meta.isView
      THEN {RouteKey("get", base, TRUE), RouteKey("post", base, FALSE),
            RouteKey("put", base, TRUE), RouteKey("delete", base, TRUE)}
      ELSE {})

\* registerRoutes: the (method, path) pairs it registers a handler for
RouteKeys(meta, endpoint) ==
  LET base == RouteBase(endpoint, meta.table)
  IN {RouteKey("get", base, FALSE)} \cup
     (IF ~meta.isView /\ HasPk(meta)
      THEN {RouteKey("get", base, TRUE), RouteKey("post", base, FALSE),
            RouteKey("put", base, TRUE), RouteKey("delete", base, TRUE)}
      ELSE {})

\* registerRoutes: app.get / app.post / app.put / app.delete append a layer to
\* the router's stack; nothing is ever removed from it
registerRoutes(app, meta, endpoint) ==
  LET ks == RouteKeys(meta, endpoint)
  IN [key \in (DOMAIN app) \cup ks |->
        IF key \in ks
        THEN (IF key \in DOMAIN app THEN Append(app[key], meta) ELSE <<meta>>)
        ELSE app[key]]

\* the router serves a request with the first layer that matches and answers
HasHandler(app, key) == key \in DOMAIN app

EffectiveHandler(app, key) == Head(app[key])

\* openApiSchemas[name] = { ..., 'x-msabon-isView', 'x-msabon-hasPk' }
SchemaEntry(meta) == [isView |-> meta.isView, hasPk |-> (meta.pk # <<>>)]

----------------------------------------------------------------------------
\* Document Builder

DocPath(base, keyed) == [base |-> base, keyed |-> keyed]

\* one schema's contribution to openApi.paths: (path, operations) pairs
PathsFor(name, sch) ==
  LET base == DocBase(name)
  IN {<<DocPath(base, FALSE),
        {"get"} \cup (IF ~sch.isView /\ sch.hasPk THEN {"post"} ELSE {})>>} \cup
     (IF sch.hasPk
      THEN {<<DocPath(base, TRUE),
              {"get"} \cup (IF ~sch.isView THEN {"put", "delete"} ELSE {})>>}
      ELSE {})

\* buildPathsFromComponents
buildPathsFromComponents(s) ==
  LET entries == UNION {PathsFor(n, s[n]) : n \in DOMAIN s}
  IN [p \in {e[1] : e \in entries} |->
        (CHOOSE e \in entries : e[1] = p)[2]]

\* a plausible slip: the new schemas replace the accumulated ones
MergeSchemas_Overwrite(old, new) == new

\* components.schemas = { ...components.schemas, ...schemas }
MergeSchemas(old, new) ==
  [n \in (DOMAIN old) \cup (DOMAIN new) |->
     IF n \in DOMAIN new THEN new[n] ELSE old[n]]

----------------------------------------------------------------------------
\* Connection Supervisor: connectAndSetupWithRetry / doAttempt

\* a plausible slip: a back-off that grows with the attempt number
delayMs_Backoff(att) == 30000 * (att + 1)

\* const delayMs = 30000
delayMs(att) == 30000

Timer(t, att) == [target |-> t, attempt |-> att + 1, delay |-> delayMs(att)]

\* a plausible slip: the connections awaited one after the other, so that a
\* target's attempt proceeds only once the targets before it are connected
AttemptPending_Serial(t) ==
  status[t] = "connecting" /\ \A u \in 1..(t - 1) : status[u] = "connected"

\* the attempt of target t is awaiting `new sql.ConnectionPool(..).connect()`;
\* start() launches every connection without awaiting it
AttemptPending(t) == status[t] = "connecting"

\* .then(() => buildPathsFromComponents()) is chained to the call start() made,
\* the one with attempt = 0; the calls made by setTimeout have no continuation
PathsAfterAttempt(t, s) ==
  IF attempt[t] = 0 THEN buildPathsFromComponents(s) ELSE paths

\* the state start() leaves: every connection launched, an empty document
SupInit ==
  /\ status = [t \in Targets |-> "connecting"]
  /\ attempt = [t \in Targets |-> 0]
  /\ disc = [t \in Targets |-> 0]
  /\ acc = [t \in Targets |-> EmptyFcn]
  /\ pools = {}
  /\ timers = {}
  /\ routes = EmptyFcn
  /\ schemas = EmptyFcn
  /\ paths = buildPathsFromComponents(EmptyFcn)

DbInit ==
  /\ rows = [o \in ObjIds |-> {}]
  /\ nextKey = [o \in ObjIds |-> 0]
  /\ resp = [method |-> "none", base |-> <<>>, keyed |-> FALSE, status |-> 0,
             body |-> NoRow, strategy |-> "none",
             executed |-> FALSE, reqKey |-> 0, reqName |-> "-",
             reqAmount |-> NoAmount, existed |-> FALSE,
             obj |-> <<0, 0>>]

\* no function under study, no batch in flight
SideInit ==
  /\ input = NoInput
  /\ output = NoOutput
  /\ exec = <<>>
  /\ holders = EmptyFcn

Init ==
  /\ connections \in Configs
  /\ generator \in Generators
  /\ SupInit
  /\ DbInit
  /\ SideInit

\* catch (err) of doAttempt: one retry scheduled; the promise start() chained
\* to resolves, so the first attempt's failure rebuilds the paths as well
Caught(t) ==
  /\ timers' = timers \cup {Timer(t, attempt[t])}
  /\ status' = [status EXCEPT ![t] = "waiting"]
  /\ disc' = [disc EXCEPT ![t] = 0]
  /\ acc' = [acc EXCEPT ![t] = EmptyFcn]
  /\ paths' = PathsAfterAttempt(t, schemas)
  /\ UNCHANGED <<attempt, routes, schemas>>

\* connect() rejects
ConnectFails(t) ==
  /\ AttemptPending(t)
  /\ Caught(t)
  /\ UNCHANGED <<pools, connections, generator, dbVars, sideVars>>

\* connect() resolves: the pool is open and setupDynamicRoutes starts
ConnectSucceeds(t) ==
  /\ AttemptPending(t)
  /\ pools' = pools \cup {[target |-> t, attempt |-> attempt[t]]}
  /\ status' = [status EXCEPT ![t] = "discovering"]
  /\ disc' = [disc EXCEPT ![t] = 0]
  /\ acc' = [acc EXCEPT ![t] = EmptyFcn]
  /\ UNCHANGED <<attempt, timers, routes, schemas, paths,
                 connections, generator, dbVars, sideVars>>

\* a catalog query of setupDynamicRoutes rejects (discoverObjects, or the
\* queries for the next object); the routes registered so far stay, the pool
\* stays open, openApiSchemas is dropped
DiscoveryFails(t) ==
  /\ status[t] = "discovering"
  /\ Caught(t)
  /\ UNCHANGED <<pools, connections, generator, dbVars, sideVars>>

\* the loop body of setupDynamicRoutes for the next object
NextMeta(t) == TableMeta(generator, t, disc[t] + 1, attempt[t])

AccAfter(t) ==
  LET meta == NextMeta(t)
      name == SchemaName(connections[t], meta.table)
  IN MergeSchemas(acc[t], [n \in {name} |-> SchemaEntry(meta)])

\* an object that is not the last one: its routes are registered, its schema
\* is added to openApiSchemas
RegisterObject(t) ==
  /\ status[t] = "discovering"
  /\ disc[t] + 1 < Len(Objects(t))
  /\ routes' = registerRoutes(routes, NextMeta(t), EndpointOrApi(connections[t]))
  /\ acc' = [acc EXCEPT ![t] = AccAfter(t)]
  /\ disc' = [disc EXCEPT ![t] = disc[t] + 1]
  /\ UNCHANGED <<status, attempt, pools, timers, schemas, paths,
                 connections, generator, dbVars, sideVars>>

\* the last object: setupDynamicRoutes returns, doAttempt merges the schemas,
\* and the continuation of the first call rebuilds the paths
CompleteDiscovery(t) ==
  /\ status[t] = "discovering"
  /\ disc[t] + 1 = Len(Objects(t))
  /\ routes' = registerRoutes(routes, NextMeta(t), EndpointOrApi(connections[t]))
  /\ schemas' = MergeSchemas(schemas, AccAfter(t))
  /\ paths' = PathsAfterAttempt(t, schemas')
  /\ status' = [status EXCEPT ![t] = "connected"]
  /\ disc' = [disc EXCEPT ![t] = 0]
  /\ acc' = [acc EXCEPT ![t] = EmptyFcn]
  /\ UNCHANGED <<attempt, pools, timers, connections, generator, dbVars, sideVars>>

\* the setTimeout callback: connectAndSetupWithRetry(app, components, c, attempt + 1)
RetryFires(tm) ==
  /\ tm \in timers
  /\ tm.attempt <= MaxAttempts
  /\ timers' = timers \ {tm}
  /\ attempt' = [attempt EXCEPT ![tm.target] = tm.attempt]
  /\ status' = [status EXCEPT ![tm.target] = "connecting"]
  /\ UNCHANGED <<disc, acc, pools, routes, schemas, paths,
                 connections, generator, dbVars, sideVars>>

SupNext ==
  \/ \E t \in Targets : ConnectFails(t)
  \/ \E t \in Targets : ConnectSucceeds(t)
  \/ \E t \in Targets : DiscoveryFails(t)
  \/ \E t \in Targets : RegisterObject(t)
  \/ \E t \in Targets : CompleteDiscovery(t)
  \/ \E tm \in timers : RetryFires(tm)

\* The supervisor's behaviours. Request handlers change none of supVars, so
\* what holds of supVars here holds with requests interleaved.
Spec == Init /\ [][SupNext]_vars

----------------------------------------------------------------------------
\* Type Mapper. A type name is the sequence of its characters, so that
\* toLowerCase, includes and === are computed on the name itself.

\* the string literals of the code, each the sequence of its characters
Str ==
  [int |-> <<"i", "n", "t">>,
   bigint |-> <<"b", "i", "g", "i", "n", "t">>,
   bit |-> <<"b", "i", "t">>,
   char |-> <<"c", "h", "a", "r">>,
   text |-> <<"t", "e", "x", "t">>,
   ntext |-> <<"n", "t", "e", "x", "t">>,
   decimal |-> <<"d", "e", "c", "i", "m", "a", "l">>,
   numeric |-> <<"n", "u", "m", "e", "r", "i", "c">>,
   float |-> <<"f", "l", "o", "a", "t">>,
   real |-> <<"r", "e", "a", "l">>,
   date |-> <<"d", "a", "t", "e">>,
   time |-> <<"t", "i", "m", "e">>,
   uniqueidentifier |-> <<"u", "n", "i", "q", "u", "e", "i", "d", "e", "n", "t", "i", "f", "i", "e", "r">>,
   nvarchar |-> <<"n", "v", "a", "r", "c", "h", "a", "r">>,
   DESC |-> <<"D", "E", "S", "C">>,
   desc |-> <<"d", "e", "s", "c">>,
   asc |-> <<"a", "s", "c">>]

\* DATA_TYPE values of INFORMATION_SCHEMA.COLUMNS (some in upper case)
TypeNames ==
  { <<"i", "n", "t">>,
    <<"b", "i", "g", "i", "n", "t">>,
    <<"s", "m", "a", "l", "l", "i", "n", "t">>,
    <<"t", "i", "n", "y", "i", "n", "t">>,
    <<"b", "i", "t">>,
    <<"d", "e", "c", "i", "m", "a", "l">>,
    <<"n", "u", "m", "e", "r", "i", "c">>,
    <<"f", "l", "o", "a", "t">>,
    <<"r", "e", "a", "l">>,
    <<"m", "o", "n", "e", "y">>,
    <<"c", "h", "a", "r">>,
    <<"v", "a", "r", "c", "h", "a", "r">>,
    <<"n", "c", "h", "a", "r">>,
    <<"n", "v", "a", "r", "c", "h", "a", "r">>,
    <<"t", "e", "x", "t">>,
    <<"n", "t", "e", "x", "t">>,
    <<"d", "a", "t", "e">>,
    <<"t", "i", "m", "e">>,
    <<"d", "a", "t", "e", "t", "i", "m", "e">>,
    <<"d", "a", "t", "e", "t", "i", "m", "e", "2">>,
    <<"s", "m", "a", "l", "l", "d", "a", "t", "e", "t", "i", "m", "e">>,
    <<"d", "a", "t", "e", "t", "i", "m", "e", "o", "f", "f", "s", "e", "t">>,
    <<"t", "i", "m", "e", "s", "t", "a", "m", "p">>,
    <<"u", "n", "i", "q", "u", "e", "i", "d", "e", "n", "t", "i", "f", "i", "e", "r">>,
    <<"v", "a", "r", "b", "i", "n", "a", "r", "y">>,
    <<"x", "m", "l">>,
    <<"B", "I", "G", "I", "N", "T">>,
    <<"I", "n", "t">>,
    <<"N", "V", "A", "R", "C", "H", "A", "R">> }

\* CHARACTER_MAXIMUM_LENGTH: 0 stands for NULL, -1 is what (n)varchar(max) has
MaxLengths == {0, -1, 50}

Column(name, type, maxLength) ==
  [COLUMN_NAME |-> name, DATA_TYPE |-> type, CHARACTER_MAXIMUM_LENGTH |-> maxLength]

LowerCase(c) ==
  CASE c = "B" -> "b" [] c = "I" -> "i" [] c = "G" -> "g" [] c = "N" -> "n"
    [] c = "T" -> "t" [] c = "V" -> "v" [] c = "A" -> "a" [] c = "R" -> "r"
    [] c = "C" -> "c" [] c = "H" -> "h" [] OTHER -> c

\* String.prototype.toLowerCase
toLowerCase(s) == [i \in 1..Len(s) |-> LowerCase(s[i])]

\* String.prototype.includes
includes(s, sub) ==
  \E i \in 1..(Len(s) - Len(sub) + 1) : SubSeq(s, i, i + Len(sub) - 1) = sub

\* sql.MAX of the driver
SqlMax == 65535

Binding(type, length, precision, scale) ==
  [type |-> type, length |-> length, precision |-> precision, scale |-> scale]

\* mapSqlTypeToMssqlType: the tests in the order the code makes them
mapSqlTypeToMssqlType(col) ==
  LET t == toLowerCase(col.DATA_TYPE)
  IN IF includes(t, Str.char) \/ t = Str.text \/ t = Str.ntext
     THEN (IF col.CHARACTER_MAXIMUM_LENGTH # 0 /\ col.CHARACTER_MAXIMUM_LENGTH > 0
           THEN Binding("NVarChar", col.CHARACTER_MAXIMUM_LENGTH, 0, 0)
           ELSE Binding("NVarChar", SqlMax, 0, 0))
     ELSE IF includes(t, Str.int) THEN Binding("Int", 0, 0, 0)
     ELSE IF t = Str.bigint THEN Binding("BigInt", 0, 0, 0)
     ELSE IF t = Str.bit THEN Binding("Bit", 0, 0, 0)
     ELSE IF includes(t, Str.decimal) \/ t = Str.numeric
       THEN Binding("Decimal", 0, 18, 4)
     ELSE IF includes(t, Str.float) \/ t = Str.real THEN Binding("Float", 0, 0, 0)
     ELSE IF includes(t, Str.date) \/ includes(t, Str.time)
       THEN Binding("DateTime", 0, 0, 0)
     ELSE IF t = Str.uniqueidentifier THEN Binding("NVarChar", 50, 0, 0)
     ELSE Binding("NVarChar", SqlMax, 0, 0)

DocType(type, format) == [type |-> type, format |-> format]

\* toOpenApiType: the tests in the order the code makes them
toOpenApiType(col) ==
  LET t == toLowerCase(col.DATA_TYPE)
  IN IF includes(t, Str.int) THEN DocType("integer", "")
     ELSE IF t = Str.bigint THEN DocType("integer", "int64")
     ELSE IF t = Str.bit THEN DocType("boolean", "")
     ELSE IF \/ includes(t, Str.float) \/ t = Str.real
             \/ includes(t, Str.decimal) \/ t = Str.numeric
       THEN DocType("number", "")
     ELSE IF includes(t, Str.date) \/ includes(t, Str.time)
       THEN DocType("string", "date-time")
     ELSE DocType("string", "")

----------------------------------------------------------------------------
\* The database behind a connection (the driver collaborator): one table per
\* object, a row is [key, name, amount]; triggers are AFTER triggers that
\* leave the table's own rows alone. An amount is a non-negative decimal
\* number, held as the count of units of 10^-scale of the column it is for.

Keys == 1..MaxKey

Names == {"a", "b"}

NullValue == "null"

\* 0.00010 and 0.00012 in units of 10^-5
Amounts == {10, 12}

\* request bodies: key = 0, name = "-" and amount = NoAmount stand for a field
\* that is absent; other stands for a property that is no column of the object
Bodies(names, amounts) ==
  [key : 0..MaxKey, name : names \cup {"-"}, amount : amounts \cup {NoAmount},
   other : BOOLEAN]

RowsWithKey(rs, key) == {r \in rs : r.key = key}

NameOf(body) == IF body.name = "-" THEN NullValue ELSE body.name

\* getColumns: the catalog row of a column (key columns are int columns)
ColumnMeta(name) ==
  CASE name = "Name" -> Column(name, Str.nvarchar, 50)
    [] name = "Amount" -> Column(name, Str.decimal, 0)
    [] OTHER -> Column(name, Str.int, 0)

RECURSIVE Pow10(_)
Pow10(n) == IF n = 0 THEN 1 ELSE 10 * Pow10(n - 1)

\* the driver sends a Decimal(precision, scale) parameter as
\* Math.round(value * 10^scale): v, in units of 10^-from, rounded to `to`
\* fractional digits
RoundToScale(v, from, to) ==
  IF from <= to THEN v
  ELSE LET d == Pow10(from - to) IN ((2 * v + d) \div (2 * d)) * d

\* the value the statement gets for request.input(col, type, value)
BoundValue(o, col, v) ==
  LET type == mapSqlTypeToMssqlType(ColumnMeta(col))
  IN IF type.type = "Decimal" /\ v # NoAmount
     THEN RoundToScale(v, o.scale, type.scale)
     ELSE v

\* SQL Server rejects an OUTPUT clause without INTO on a table that has an
\* enabled trigger (error 334), whatever the rows
Rejects334(o, strategy) == strategy = "direct" /\ o.trig

\* the key the INSERT gives the new row: 0 when the statement fails
\* (explicit value for an identity column, NULL into the key column)
InsertedKey(o, body, last) ==
  CASE o.keygen = "identity" -> IF body.key # 0 THEN 0 ELSE last + 1
    [] o.keygen = "default" -> IF body.key # 0 THEN body.key ELSE last + 1
    [] OTHER -> body.key

----------------------------------------------------------------------------
\* Route Registrar: the handlers registerRoutes installs

\* req.body[col.COLUMN_NAME] !== undefined, for a column of the object
Supplied(meta, body, col) ==
  IF HasPk(meta) /\ col = meta.pk[1] THEN body.key # 0
  ELSE IF col = "Amount" THEN body.amount # NoAmount
  ELSE body.name # "-"

Cols(meta) == {meta.columns[i] : i \in 1..Len(meta.columns)}

\* CREATE: cols / vals
InsertCols(meta, body) == {col \in Cols(meta) : Supplied(meta, body, col)}

\* a plausible slip: the key column not skipped when collecting the SET list
UpdateSets_WithKey(meta, body) ==
  {col \in Cols(meta) : Supplied(meta, body, col)}

\* UPDATE: sets (`if (col.COLUMN_NAME === pk) continue`)
UpdateSets(meta, body) ==
  {col \in Cols(meta) : col # meta.pk[1] /\ Supplied(meta, body, col)}

\* CREATE: which statement text is built
InsertStrategy(meta, body) ==
  IF meta.hasTriggers
  THEN (IF meta.identity # NoCol THEN "identity-reselect"
        ELSE IF HasPk(meta) /\ body.key # 0 THEN "key-reselect"
        ELSE "staging")
  ELSE "direct"

\* UPDATE: which statement text is built
UpdateStrategy(meta) == IF meta.hasTriggers THEN "key-reselect" ELSE "direct"

\* a plausible slip: the DELETE left with its OUTPUT clause on every table
DeleteStrategy_Direct(meta) == "direct"

\* DELETE: which statement text is built
DeleteStrategy(meta) == IF meta.hasTriggers THEN "staging" ELSE "direct"

TableOf(meta) == <<meta.target, meta.obj>>

Response(key, code, body, strategy, executed, reqBody, existed) ==
  [method |-> key.method, base |-> key.base, keyed |-> key.keyed,
   status |-> code, body |-> body, strategy |-> strategy,
   executed |-> executed, reqKey |-> reqBody.key, reqName |-> reqBody.name,
   reqAmount |-> reqBody.amount, existed |-> existed,
   obj |-> IF HasHandler(routes, key) THEN TableOf(EffectiveHandler(routes, key))
           ELSE <<0, 0>>]

PathBody(k) == [key |-> k, name |-> "-", amount |-> NoAmount, other |-> FALSE]

Served(key) == EffectiveHandler(routes, key)

CatalogOf(meta) == Objects(meta.target)[meta.obj]

\* no layer of the router matches: express answers 404 itself
Unrouted(key, k) ==
  /\ ~HasHandler(routes, key)
  /\ resp' = Response(key, 404, NoRow, "none", FALSE, PathBody(k), FALSE)
  /\ UNCHANGED <<rows, nextKey, supVars, connections, generator, sideVars>>

\* GET base/:pk
GetByKey(base, k) ==
  LET key == RouteKey("get", base, TRUE)
      meta == Served(key)
      found == RowsWithKey(rows[TableOf(meta)], k)
  IN /\ HasHandler(routes, key)
     /\ resp' = IF found = {}
                THEN Response(key, 404, NoRow, "select", TRUE, PathBody(k), FALSE)
                ELSE Response(key, 200, CHOOSE r \in found : TRUE, "select",
                              TRUE, PathBody(k), TRUE)
     /\ UNCHANGED <<rows, nextKey, supVars, connections, generator, sideVars>>

\* POST base
Create(base, body) ==
  LET key == RouteKey("post", base, FALSE)
      meta == Served(key)
      tbl == TableOf(meta)
      o == CatalogOf(meta)
      strategy == InsertStrategy(meta, body)
      newKey == InsertedKey(o, body, nextKey[tbl])
      generated == newKey # 0 /\ body.key = 0
      fails == \/ InsertCols(meta, body) = {}
               \/ Rejects334(o, strategy)
               \/ newKey = 0
               \/ RowsWithKey(rows[tbl], newKey) # {}
      row == [key |-> BoundValue(o, meta.columns[1], newKey),
              name |-> BoundValue(o, "Name", NameOf(body)),
              amount |-> IF "Amount" \in InsertCols(meta, body)
                         THEN BoundValue(o, "Amount", body.amount) ELSE NoAmount]
      after == rows[tbl] \cup {row}
      \* the row set the statement returns: the OUTPUT rows, or the reselect
      out == CASE strategy = "identity-reselect" -> RowsWithKey(after, nextKey[tbl] + 1)
               [] strategy = "key-reselect" -> RowsWithKey(after, body.key)
               [] OTHER -> {row}
  IN /\ HasHandler(routes, key)
     /\ newKey <= MaxKey
     /\ IF fails
        THEN /\ resp' = Response(key, 500, NoRow, strategy, TRUE, body, FALSE)
             /\ UNCHANGED <<rows, nextKey>>
        ELSE /\ rows' = [rows EXCEPT ![tbl] = after]
             /\ nextKey' = [nextKey EXCEPT ![tbl] = IF generated THEN newKey ELSE @]
             /\ resp' = Response(key, 201,
                                 IF out = {} THEN NoRow ELSE CHOOSE r \in out : TRUE,
                                 strategy, TRUE, body, FALSE)
     /\ UNCHANGED <<supVars, connections, generator, sideVars>>

\* PUT base/:pk
Update(base, k, body) ==
  LET key == RouteKey("put", base, TRUE)
      meta == Served(key)
      tbl == TableOf(meta)
      o == CatalogOf(meta)
      strategy == UpdateStrategy(meta)
      hit == RowsWithKey(rows[tbl], k)
      sets == UpdateSets(meta, body)
      changed == {[key |-> r.key,
                   name |-> IF "Name" \in sets
                            THEN BoundValue(o, "Name", body.name) ELSE r.name,
                   amount |-> IF "Amount" \in sets
                              THEN BoundValue(o, "Amount", body.amount)
                              ELSE r.amount] : r \in hit}
      after == (rows[tbl] \ hit) \cup changed
      \* OUTPUT inserted.*, or the SELECT by key that follows the UPDATE
      out == IF strategy = "direct" THEN changed ELSE RowsWithKey(after, k)
      req == [key |-> k, name |-> body.name, amount |-> body.amount,
              other |-> body.other]
  IN /\ HasHandler(routes, key)
     /\ IF UpdateSets(meta, body) = {}
        THEN /\ resp' = Response(key, 400, NoRow, "none", FALSE, req, hit # {})
             /\ UNCHANGED <<rows, nextKey>>
        ELSE IF Rejects334(o, strategy)
        THEN /\ resp' = Response(key, 500, NoRow, strategy, TRUE, req, hit # {})
             /\ UNCHANGED <<rows, nextKey>>
        ELSE /\ rows' = [rows EXCEPT ![tbl] = after]
             /\ resp' = IF out = {}
                        THEN Response(key, 404, NoRow, strategy, TRUE, req, hit # {})
                        ELSE Response(key, 200, CHOOSE r \in out : TRUE, strategy,
                                      TRUE, req, hit # {})
             /\ UNCHANGED nextKey
     /\ UNCHANGED <<supVars, connections, generator, sideVars>>

\* DELETE base/:pk
Delete(base, k) ==
  LET key == RouteKey("delete", base, TRUE)
      meta == Served(key)
      tbl == TableOf(meta)
      o == CatalogOf(meta)
      strategy == DeleteStrategy(meta)
      hit == RowsWithKey(rows[tbl], k)
  IN /\ HasHandler(routes, key)
     /\ IF Rejects334(o, strategy)
        THEN /\ resp' = Response(key, 500, NoRow, strategy, TRUE, PathBody(k), hit # {})
             /\ UNCHANGED <<rows, nextKey>>
        ELSE /\ rows' = [rows EXCEPT ![tbl] = rows[tbl] \ hit]
             /\ resp' = IF hit = {}
                        THEN Response(key, 404, NoRow, strategy, TRUE, PathBody(k), FALSE)
                        ELSE Response(key, 200, CHOOSE r \in hit : TRUE, strategy,
                                      TRUE, PathBody(k), TRUE)
             /\ UNCHANGED nextKey
     /\ UNCHANGED <<supVars, connections, generator, sideVars>>

\* the bases a client may address: one per object of the configuration
Bases ==
  {RouteBase(EndpointOrApi(connections[o[1]]), Objects(o[1])[o[2]].table) : o \in ObjIds}

KeyedMethods == {"get", "put", "delete"}

\* the columns of the objects a base addresses
ColumnsAt(b) ==
  UNION {Cols(Objects(o[1])[o[2]]) :
           o \in {x \in ObjIds :
                    RouteBase(EndpointOrApi(connections[x[1]]),
                              Objects(x[1])[x[2]].table) = b}}

\* the bodies a client may send to a base: a value for a column the object
\* does not have is a property that is no column (other)
BodiesFor(b) ==
  Bodies(IF "Name" \in ColumnsAt(b) THEN Names ELSE {},
         IF "Amount" \in ColumnsAt(b) THEN Amounts ELSE {})

ReqInit ==
  /\ connections \in ReqConfigs
  /\ generator \in Generators
  /\ SupInit
  /\ DbInit
  /\ SideInit

ReqNext ==
  \/ \E t \in Targets : ConnectSucceeds(t)
  \/ \E t \in Targets : RegisterObject(t)
  \/ \E t \in Targets : CompleteDiscovery(t)
  \/ \E b \in Bases, m \in KeyedMethods, k \in Keys : Unrouted(RouteKey(m, b, TRUE), k)
  \/ \E b \in Bases, k \in Keys : GetByKey(b, k)
  \/ \E b \in Bases : \E body \in BodiesFor(b) : Create(b, body)
  \/ \E b \in Bases, k \in Keys : \E body \in BodiesFor(b) : Update(b, k, body)
  \/ \E b \in Bases, k \in Keys : Delete(b, k)

\* The request handlers' behaviours, over connections that succeed. The
\* router's stack only grows and the handler of an object reads the same
\* metadata in every attempt, so a failed attempt changes no response.
ReqSpec == ReqInit /\ [][ReqNext]_vars

----------------------------------------------------------------------------
\* Claims about the supervisor, the routes and the document

Connected(t) == status[t] = "connected"

\* the metadata discovery builds for object k of target t (any attempt)
IsObject(meta, t, k) == meta.target = t /\ meta.obj = k

\* the route keys under which a handler of object k of target t is registered
RegisteredKeys(t, k) ==
  {key \in DOMAIN routes :
     \E i \in 1..Len(routes[key]) : IsObject(routes[key][i], t, k)}

ObjectName(t, k) == SchemaName(connections[t], Objects(t)[k].table)

ObjectRouteKeys(t, k) ==
  RouteKeys(TableMeta(generator, t, k, 0), EndpointOrApi(connections[t]))

\* C1: once a target's schemas are merged into components.schemas, the
\* document's paths contain the operations of every merged schema, on the
\* first attempt and on every retry alike (the paths are never stale).
C1_PathsFollowMerge ==
  \A n \in DOMAIN schemas :
    \A e \in PathsFor(n, schemas[n]) :
      e[1] \in DOMAIN paths /\ paths[e[1]] = e[2]

\* C2: every (method, path) is served by the handler registered last for it:
\* a second registration replaces the first one instead of stacking.
C2_ReRegistrationReplaces ==
  \A key \in DOMAIN routes :
    /\ Len(routes[key]) = 1
    /\ EffectiveHandler(routes, key) = routes[key][Len(routes[key])]

AllRouteShapes ==
  {<<"get", FALSE>>, <<"get", TRUE>>, <<"post", FALSE>>,
   <<"put", TRUE>>, <<"delete", TRUE>>}

\* C3: the routes registered for an object depend on its kind and on the
\* presence of a primary key only: list always; get-by-key, create, update and
\* delete exactly for a table with a primary key.
C3_RouteSetByKindAndKey ==
  \A o \in ObjIds :
    LET t == o[1]
        k == o[2]
        c == Objects(t)[k]
        keys == RegisteredKeys(t, k)
    IN keys # {} =>
         /\ \A key \in keys :
              key.base = RouteBase(EndpointOrApi(connections[t]), c.table)
         /\ {<<key.method, key.keyed>> : key \in keys} =
              (IF c.type = "BASE TABLE" /\ c.pk # <<>>
               THEN AllRouteShapes
               ELSE {<<"get", FALSE>>})

C3_Witness ==
  /\ \E o \in ObjIds : /\ RegisteredKeys(o[1], o[2]) # {}
                        /\ Objects(o[1])[o[2]].type = "VIEW"
                        /\ Objects(o[1])[o[2]].trig
  /\ \E o \in ObjIds : /\ RegisteredKeys(o[1], o[2]) # {}
                        /\ Objects(o[1])[o[2]].type = "BASE TABLE"
                        /\ Objects(o[1])[o[2]].pk = <<>>
  /\ \E o \in ObjIds : /\ RegisteredKeys(o[1], o[2]) # {}
                        /\ Objects(o[1])[o[2]].type = "BASE TABLE"
                        /\ Objects(o[1])[o[2]].pk # <<>>

TimersOf(t) == {tm \in timers : tm.target = t}

C4_TimerInv ==
  /\ \A t \in Targets :
       Cardinality(TimersOf(t)) = (IF status[t] = "waiting" THEN 1 ELSE 0)
  /\ \A tm \in timers : tm.delay = 30000 /\ tm.attempt = attempt[tm.target] + 1
  /\ \A tm \in timers : tm.attempt <= MaxAttempts => ENABLED RetryFires(tm)

C4_AttemptStep ==
  \A t \in Targets :
    /\ (attempt'[t] # attempt[t] \/ (status'[t] = "connecting" /\ status[t] # "connecting"))
         => (status[t] = "waiting" /\ attempt'[t] = attempt[t] + 1
             /\ status'[t] = "connecting" /\ TimersOf(t)' = {})
    /\ (status[t] \in {"connecting", "discovering"} /\ status'[t] = "waiting")
         => timers' = timers \cup {[target |-> t, attempt |-> attempt[t] + 1, delay |-> 30000]}
    /\ Connected(t) => (status'[t] = "connected" /\ attempt'[t] = attempt[t])

\* C4: per target a new attempt starts only from a pending retry of a failed
\* attempt; every failed attempt (connect or discovery) schedules exactly one
\* retry, 30000 ms later, whatever the attempt number; once connected, the
\* target schedules and starts nothing more.
C4_RetryIffFailed == []C4_TimerInv /\ [][C4_AttemptStep]_vars

C4_Witness ==
  \E t \in Targets, u \in Targets :
    /\ Connected(t) /\ attempt[t] >= 2
    /\ status[u] = "waiting" /\ attempt[u] >= 1

NameIsUnique(t, k) ==
  \A o \in ObjIds : ObjectName(o[1], o[2]) = ObjectName(t, k) => o = <<t, k>>

C5_MergedInv ==
  \A t \in Targets :
    Connected(t) =>
      \A k \in 1..Len(Objects(t)) :
        /\ ObjectName(t, k) \in DOMAIN schemas
        /\ NameIsUnique(t, k) =>
             schemas[ObjectName(t, k)] = SchemaEntry(TableMeta(generator, t, k, 0))

C5_MergeStep == \A n \in DOMAIN schemas : n \in DOMAIN schemas'

DocMethods(p) == IF p \in DOMAIN paths THEN paths[p] ELSE {}

\* C7: when the paths are those built from the merged schemas, the document
\* describes exactly the registered endpoints: every route of every merged
\* object is a document path with that operation, and every document
\* operation has a handler registered under that very path.
C7_DocumentMatchesRoutes ==
  (paths = buildPathsFromComponents(schemas)) =>
    /\ \A t \in Targets :
         Connected(t) =>
           \A k \in 1..Len(Objects(t)) :
             \A key \in ObjectRouteKeys(t, k) :
               key.method \in DocMethods(DocPath(key.base, key.keyed))
    /\ \A p \in DOMAIN paths :
         \A m \in paths[p] : HasHandler(routes, RouteKey(m, p.base, p.keyed))

----------------------------------------------------------------------------
\* Claims about the request handlers

Answered(method) == resp.method = method /\ resp.obj # <<0, 0>>

RespObject == Objects(resp.obj[1])[resp.obj[2]]

\* the request body carries a value for a non-key column of the object
SuppliesField ==
  \/ resp.reqName # "-"
  \/ resp.reqAmount # NoAmount /\ \E i \in 1..Len(RespObject.columns) :
                                     RespObject.columns[i] = "Amount"

\* C8: an insert into a table with an enabled trigger uses the
\* identity-reselect statement when the table has an identity column, the
\* staging-table statement when it has none and the payload carries no key
\* (and then returns the whole inserted row), and never a direct OUTPUT clause.
C8_TriggerInsertStrategy ==
  (Answered("post") /\ RespObject.trig) =>
    /\ resp.strategy # "direct"
    /\ RespObject.keygen = "identity" => resp.strategy = "identity-reselect"
    /\ (RespObject.keygen # "identity" /\ resp.reqKey = 0) =>
         /\ resp.strategy = "staging"
         /\ resp.status = 201 => (resp.body.key # 0 /\ resp.body.name = resp.reqName)

\* C9: an update whose body supplies no updatable field is answered 400 and
\* no statement is sent to the database for it.
C9_EmptyUpdateIs400 ==
  (Answered("put") /\ ~SuppliesField) =>
    (resp.status = 400 /\ ~resp.executed /\ resp.strategy = "none")

C9_Witness ==
  /\ Answered("put") /\ ~SuppliesField
  /\ resp.status = 400
  /\ resp.existed

\* C10: a get or delete by key, or an update that supplies a field, for a key
\* no row has is answered 404, on tables with and without an enabled trigger
\* (so a get that follows the delete of the same key is answered 404).
C10_MissingRowIs404 ==
  (/\ resp.keyed
   /\ resp.method \in {"get", "delete"} \/ (resp.method = "put" /\ SuppliesField)
   /\ ~resp.existed) =>
    resp.status = 404

\* the same two statements hold of the generator copy that reads the trigger
\* state at discovery
C8_HoldsForPart000 == generator = "part_000" => C8_TriggerInsertStrategy

C10_HoldsForPart000 == generator = "part_000" => C10_MissingRowIs404

----------------------------------------------------------------------------
\* Claims about connections and failed discovery passes

PoolsOf(t) == {p \in pools : p.target = t}

\* every handler in the router's stacks
Handlers ==
  UNION {{routes[key][i] : i \in 1..Len(routes[key])} : key \in DOMAIN routes}

\* the connections the registered handlers of target t close over
HandlerPools(t) == {meta.pool : meta \in {h \in Handlers : h.target = t}}

\* C18: a target holds at most one live connection at any time (the
\* connection of an attempt whose discovery failed is gone when a retry opens
\* a new one), and the handlers of a target never hold connections opened by
\* different attempts.
C18_OneLiveConnection ==
  \A t \in Targets :
    /\ Cardinality(PoolsOf(t)) <= 1
    /\ Cardinality(HandlerPools(t)) <= 1

\* the handler that answers a route of target t
ReachableOf(t) ==
  {EffectiveHandler(routes, key) :
     key \in {k \in DOMAIN routes : EffectiveHandler(routes, k).target = t}}

\* C20: a discovery pass that fails partway leaves what a connect failure
\* leaves: while a target is not inside a discovery pass, every reachable
\* route of one of its objects belongs to an object whose schema is merged
\* into components.schemas (so no route of a failed pass is reachable).
C20_FailedPassLeavesNothing ==
  \A t \in Targets :
    status[t] # "discovering" =>
      \A meta \in ReachableOf(t) :
        SchemaName(connections[t], meta.table) \in DOMAIN schemas

----------------------------------------------------------------------------
\* Claims about the statement strategies

Mutations == {"post", "put", "delete"}

Strategies == {"direct", "identity-reselect", "key-reselect", "staging"}

\* the response answers a mutation for which a statement was sent
Mutated == resp.method \in Mutations /\ resp.obj # <<0, 0>> /\ resp.executed

\* what discovery recorded for the object the response is about
RespMeta == Served(RouteKey(resp.method, resp.base, resp.keyed))

C16_SameStrategyStep ==
  (/\ Mutated
   /\ Mutated'
   /\ resp'.method = resp.method
   /\ resp'.obj = resp.obj) => resp'.strategy = resp.strategy

StrategyTable(method, trig, ident, keyGiven) ==
  CASE ~trig -> "direct"
    [] trig /\ method = "put" -> "key-reselect"
    [] trig /\ method = "delete" -> "staging"
    [] trig /\ method = "post" /\ ident -> "identity-reselect"
    [] trig /\ method = "post" /\ ~ident /\ keyGiven -> "key-reselect"
    [] OTHER -> "staging"

----------------------------------------------------------------------------
\* The discovery filter

FilterChars == {"^", "$", "M", "I"}

\* endpointConfig.filter: the empty sequence stands for an absent (or empty,
\* equally falsy) filter
Filters == UNION {[1..n -> FilterChars] : n \in 0..MaxFilterLen}

\* String.prototype.replace with a pattern that matches c at the start only
ReplaceLeading(s, c) == IF s # <<>> /\ s[1] = c THEN Tail(s) ELSE s

\* String.prototype.replace with an unanchored, non-global pattern: the
\* first c of the string is removed, wherever it is
ReplaceFirst(s, c) ==
  IF \E i \in 1..Len(s) : s[i] = c
  THEN LET i == CHOOSE k \in 1..Len(s) : s[k] = c /\ \A j \in 1..(k - 1) : s[j] # c
       IN SubSeq(s, 1, i - 1) \o SubSeq(s, i + 1, Len(s))
  ELSE s

\* const filter = endpointConfig.filter || '%';
\* const sqlLike = filter.replace(/^\^/, '').replace(/\$/, '') + '%';
sqlLike(configured) ==
  LET filter == IF configured = <<>> THEN <<"%">> ELSE configured
  IN ReplaceFirst(ReplaceLeading(filter, "^"), "$") \o <<"%">>

----------------------------------------------------------------------------
\* The functions of the generator, each applied to an argument chosen at the
\* start

NoBinding == Binding("none", 0, 0, 0)

NoDocType == DocType("none", "")

FnInit ==
  /\ connections = <<>>
  /\ generator \in Generators
  /\ SupInit
  /\ DbInit
  /\ \/ \E t \in TypeNames, l \in MaxLengths :
          input = [fn |-> "type", col |-> Column(<<"c">>, t, l), filter |-> <<>>]
     \/ \E f \in Filters :
          input = [fn |-> "filter", col |-> Column(<<"c">>, <<>>, 0), filter |-> f]
  /\ output = [fn |-> "none", binding |-> NoBinding, doc |-> NoDocType, like |-> <<>>]
  /\ exec = <<>>
  /\ holders = EmptyFcn

\* request.input(name, mapSqlTypeToMssqlType(col), value)
ApplyMapSqlType ==
  /\ input.fn = "type"
  /\ output.binding = NoBinding
  /\ output' = [output EXCEPT !.fn = "type", !.binding = mapSqlTypeToMssqlType(input.col)]
  /\ UNCHANGED <<connections, generator, supVars, dbVars, input, exec, holders>>

\* props[c.COLUMN_NAME] = toOpenApiType(c)
ApplyToOpenApiType ==
  /\ input.fn = "type"
  /\ output.doc = NoDocType
  /\ output' = [output EXCEPT !.fn = "type", !.doc = toOpenApiType(input.col)]
  /\ UNCHANGED <<connections, generator, supVars, dbVars, input, exec, holders>>

\* setupDynamicRoutes: the pattern the discovery query is given
ApplySqlLike ==
  /\ input.fn = "filter"
  /\ output.fn = "none"
  /\ output' = [output EXCEPT !.fn = "filter", !.like = sqlLike(input.filter)]
  /\ UNCHANGED <<connections, generator, supVars, dbVars, input, exec, holders>>

FnNext == ApplyMapSqlType \/ ApplyToOpenApiType \/ ApplySqlLike

FnSpec == FnInit /\ [][FnNext]_vars

----------------------------------------------------------------------------
\* Claims about the type mapper and the discovery filter

BindingCategory(b) ==
  CASE b.type = "NVarChar" -> "string"
    [] b.type \in {"Int", "BigInt"} -> "integer"
    [] b.type = "Bit" -> "boolean"
    [] b.type \in {"Decimal", "Float"} -> "number"
    [] b.type = "DateTime" -> "date-time"
    [] OTHER -> "none"

DocCategory(d) ==
  CASE d.type = "string" /\ d.format = "date-time" -> "date-time"
    [] d.type = "none" -> "none"
    [] OTHER -> d.type

TypeMapped == input.fn = "type" /\ output.binding # NoBinding /\ output.doc # NoDocType

LowerType == toLowerCase(input.col.DATA_TYPE)

\* C19: the exact type bigint gets the 64-bit integer binding and document
\* type integer with format int64, every other type whose name contains int
\* gets the 32-bit integer binding and plain integer, and for every type name
\* the binding and the document type are in the same category.
C19_TypeMapper ==
  TypeMapped =>
    /\ LowerType = Str.bigint =>
         (output.binding.type = "BigInt" /\ output.doc = DocType("integer", "int64"))
    /\ (includes(LowerType, Str.int) /\ LowerType # Str.bigint) =>
         (output.binding.type = "Int" /\ output.doc = DocType("integer", ""))
    /\ BindingCategory(output.binding) = DocCategory(output.doc)

\* the part of C19 that holds: same category for every type name, and the
\* 32-bit integer binding with plain integer for every name containing int
C19_SameCategory ==
  TypeMapped =>
    /\ includes(LowerType, Str.int) =>
         (output.binding.type = "Int" /\ output.doc = DocType("integer", ""))
    /\ BindingCategory(output.binding) = DocCategory(output.doc)

\* the configured filter without a leading ^ and without a trailing $
Unanchored(filter) ==
  LET f == ReplaceLeading(filter, "^")
  IN IF f # <<>> /\ f[Len(f)] = "$" THEN SubSeq(f, 1, Len(f) - 1) ELSE f

\* C15: the LIKE pattern is the configured filter with only a leading ^ and
\* only a trailing $ removed and one % appended; a ^ or $ anywhere else is
\* kept.
C15_LikePattern ==
  (input.fn = "filter" /\ output.fn = "filter" /\ input.filter # <<>>) =>
    output.like = Unanchored(input.filter) \o <<"%">>

\* the part of C15 that holds: filters with no $ before their last character
C15_HoldsWithoutInnerDollar ==
  (/\ input.fn = "filter" /\ output.fn = "filter" /\ input.filter # <<>>
   /\ \A i \in 1..(Len(input.filter) - 1) : input.filter[i] # "$") =>
    output.like = Unanchored(input.filter) \o <<"%">>

----------------------------------------------------------------------------
\* Claims about the insert / get round trip

\* the response answers a successful insert into a table with a primary key
\* and no enabled trigger
InsertedPlain(r) ==
  /\ r.method = "post" /\ r.obj # <<0, 0>>
  /\ r.status = 201
  /\ ~Objects(r.obj[1])[r.obj[2]].trig
  /\ Objects(r.obj[1])[r.obj[2]].pk # <<>>

\* the row has the values the request carried
HasSubmittedValues(row, r) ==
  /\ r.reqKey # 0 => row.key = r.reqKey
  /\ r.reqName # "-" => row.name = r.reqName
  /\ r.reqAmount # NoAmount => row.amount = r.reqAmount

C11_Inserted ==
  InsertedPlain(resp) =>
    /\ resp.body.key # 0
    /\ RespObject.keygen = "identity" => resp.body.key = nextKey[resp.obj]
    /\ HasSubmittedValues(resp.body, resp)

C11_GetAfterInsert ==
  (/\ InsertedPlain(resp)
   /\ resp'.method = "get" /\ resp'.keyed /\ resp'.obj = resp.obj
   /\ resp'.reqKey = resp.body.key) =>
    /\ resp'.status = 200
    /\ resp'.body.key = resp.body.key
    /\ HasSubmittedValues(resp'.body, resp)

\* C11: on a table with a primary key and no enabled trigger a successful
\* insert returns a row with the server-assigned key, and the get by that key
\* that follows returns 200 with the field values that were submitted.
C11_InsertGetRoundTrip == [][C11_Inserted' /\ C11_GetAfterInsert]_vars

\* the request carries no amount that the binding type cannot hold
ExactAmount(r) ==
  r.reqAmount = NoAmount \/
    BoundValue(Objects(r.obj[1])[r.obj[2]], "Amount", r.reqAmount) = r.reqAmount

\* the part of C11 that holds: requests whose decimal values have no more
\* fractional digits than the binding type
C11_HoldsForExactAmounts ==
  [][/\ (InsertedPlain(resp') /\ ExactAmount(resp')) => C11_Inserted'
     /\ (InsertedPlain(resp) /\ ExactAmount(resp)) => C11_GetAfterInsert]_vars

----------------------------------------------------------------------------
\* The LIST handler (GET base). A query string value is a sequence: of
\* characters for limit and offset, of a column token, "." and the characters
\* of the direction for order.

\* a string no catalog has as a name
Evil == "x]; DROP TABLE t --"

\* req.query: name is the value of the parameter Name ("-" when absent),
\* unknown tells whether a parameter named Evil is present
Queries(names, orders, limits, offsets) ==
  [name : names, unknown : BOOLEAN, order : orders, limit : limits, offset : offsets]

Digits == {"0", "1", "2", "3", "4", "5", "6", "7", "8", "9"}

DigitValue(c) ==
  CASE c = "0" -> 0 [] c = "1" -> 1 [] c = "2" -> 2 [] c = "3" -> 3 [] c = "4" -> 4
    [] c = "5" -> 5 [] c = "6" -> 6 [] c = "7" -> 7 [] c = "8" -> 8 [] OTHER -> 9

\* the length of the longest prefix of s made of digits
RECURSIVE LeadingDigits(_)
LeadingDigits(s) ==
  IF s # <<>> /\ s[1] \in Digits THEN 1 + LeadingDigits(Tail(s)) ELSE 0

RECURSIVE DigitsValue(_)
DigitsValue(s) ==
  IF s = <<>> THEN 0 ELSE 10 * DigitsValue(SubSeq(s, 1, Len(s) - 1)) + DigitValue(s[Len(s)])

NaN == [finite |-> FALSE, n |-> 0]

\* parseInt(s, 10): an optional sign, then the digits up to the first other
\* character; NaN when there is no digit (or no parameter)
parseInt(s) ==
  LET signed == s # <<>> /\ s[1] \in {"-", "+"}
      rest == IF signed THEN Tail(s) ELSE s
      n == LeadingDigits(rest)
      v == DigitsValue(SubSeq(rest, 1, n))
  IN IF n = 0 THEN NaN
     ELSE [finite |-> TRUE, n |-> IF signed /\ s[1] = "-" THEN 0 - v ELSE v]

\* Number.isFinite(parseInt(q.limit, 10)) ? parseInt(q.limit, 10) : -1
LimitOf(q) == IF parseInt(q.limit).finite THEN parseInt(q.limit).n ELSE -1

\* ... parseInt(q.offset, 10) : 0; if (offset < 0) offset = 0
OffsetOf(q) ==
  LET offset == IF parseInt(q.offset).finite THEN parseInt(q.offset).n ELSE 0
  IN IF offset < 0 THEN 0 ELSE offset

\* String.prototype.split('.')
RECURSIVE SplitDot(_)
SplitDot(s) ==
  IF \E i \in 1..Len(s) : s[i] = "."
  THEN LET i == CHOOSE k \in 1..Len(s) : s[k] = "." /\ \A j \in 1..(k - 1) : s[j] # "."
       IN <<SubSeq(s, 1, i - 1)>> \o SplitDot(SubSeq(s, i + 1, Len(s)))
  ELSE <<s>>

UpperCase(c) ==
  CASE c = "d" -> "D" [] c = "e" -> "E" [] c = "s" -> "S" [] c = "c" -> "C"
    [] c = "a" -> "A" [] OTHER -> c

\* String.prototype.toUpperCase
toUpperCase(s) == [i \in 1..Len(s) |-> UpperCase(s[i])]

\* orderCol as parsed from q.order: parts[0] (the empty sequence when q.order
\* is absent or empty)
ParsedOrderCol(q) == IF q.order = <<>> THEN <<>> ELSE SplitDot(q.order)[1]

\* orderDir as parsed from q.order
ParsedOrderDir(q) ==
  IF q.order = <<>> THEN "ASC"
  ELSE LET parts == SplitDot(q.order)
       IN IF Len(parts) >= 2 /\ parts[2] # <<>> /\ toUpperCase(parts[2]) = Str.DESC
          THEN "DESC" ELSE "ASC"

\* !orderCol || !columnNames.has(orderCol)
OrderInvalid(meta, q) ==
  ParsedOrderCol(q) = <<>> \/ ~\E c \in Cols(meta) : ParsedOrderCol(q) = <<c>>

\* a plausible slip: the parsed column used without the look-up in columnNames
OrderCol_Unchecked(meta, q) ==
  IF ParsedOrderCol(q) = <<>>
  THEN (IF HasPk(meta) THEN meta.pk[1] ELSE meta.columns[1])
  ELSE ParsedOrderCol(q)[1]

\* the column of the ORDER BY clause
OrderCol(meta, q) ==
  IF OrderInvalid(meta, q)
  THEN (IF HasPk(meta) THEN meta.pk[1] ELSE meta.columns[1])
  ELSE ParsedOrderCol(q)[1]

\* a plausible slip: the parsed direction kept when the column is replaced
OrderDir_Kept(meta, q) == ParsedOrderDir(q)

\* the direction of the ORDER BY clause
OrderDir(meta, q) == IF OrderInvalid(meta, q) THEN "ASC" ELSE ParsedOrderDir(q)

\* req.query[col.COLUMN_NAME] !== undefined
Filtered(q, col) == col = "Name" /\ q.name # "-"

\* the columns of the WHERE clause, in catalog order
WhereCols(meta, q) == SelectSeq(meta.columns, LAMBDA c : Filtered(q, c))

\* which of the three statement texts is built
Paging(q) ==
  IF LimitOf(q) < 0 /\ OffsetOf(q) = 0 THEN "none"
  ELSE IF LimitOf(q) < 0 /\ OffsetOf(q) >= 0 THEN "offset"
  ELSE "offset-fetch"

\* qName(schema, table)
qName(schema, table) == <<"[">> \o schema \o <<"]", ".", "[">> \o table \o <<"]">>

RECURSIVE WhereText(_)
WhereText(cols) ==
  IF cols = <<>> THEN <<>>
  ELSE <<"[", cols[1], "]", "=", "@", cols[1]>>
         \o (IF Len(cols) > 1 THEN <<"AND">> ELSE <<>>) \o WhereText(Tail(cols))

\* sqlText, as the sequence of its tokens
ListText(meta, q) ==
  <<"SELECT * FROM">> \o qName(meta.schema, meta.table)
    \o (IF WhereCols(meta, q) = <<>> THEN <<>> ELSE <<"WHERE">> \o WhereText(WhereCols(meta, q)))
    \o <<"ORDER BY", "[", OrderCol(meta, q), "]", OrderDir(meta, q)>>
    \o (CASE Paging(q) = "none" -> <<>>
          [] Paging(q) = "offset" -> <<"OFFSET", "@", "offset", "ROWS">>
          [] OTHER -> <<"OFFSET", "@", "offset", "ROWS",
                        "FETCH NEXT", "@", "limit", "ROWS ONLY">>)

\* request.parameters: the values bound with request.input
ListParams(meta, q) ==
  [n \in {c \in Cols(meta) : Filtered(q, c)}
         \cup (IF Paging(q) = "none" THEN {} ELSE {"offset"})
         \cup (IF Paging(q) = "offset-fetch" THEN {"limit"} ELSE {}) |->
     CASE n = "offset" -> OffsetOf(q)
       [] n = "limit" -> LimitOf(q)
       [] OTHER -> BoundValue(CatalogOf(meta), n, q.name)]

\* ORDER BY on a column: NULL sorts first, then the values
NameRank(n) == CASE n = NullValue -> 0 [] n = "a" -> 1 [] n = "b" -> 2 [] OTHER -> 3

OrderValue(meta, r, col) ==
  IF HasPk(meta) /\ col = meta.pk[1] THEN r.key
  ELSE IF col = "Name" THEN NameRank(r.name)
  ELSE r.amount

Precedes(meta, r, o, col, dir) ==
  IF dir = "DESC" THEN OrderValue(meta, r, col) >= OrderValue(meta, o, col)
  ELSE OrderValue(meta, r, col) <= OrderValue(meta, o, col)

\* every order the database may return the rows S in for ORDER BY col dir:
\* rows with equal values come in any order
RECURSIVE SortedSeqs(_, _, _, _)
SortedSeqs(S, meta, col, dir) ==
  IF S = {} THEN {<<>>}
  ELSE UNION {{<<r>> \o rest : rest \in SortedSeqs(S \ {r}, meta, col, dir)} :
                r \in {x \in S : \A o \in S : Precedes(meta, x, o, col, dir)}}

\* WHERE [col] = @col AND ...: a NULL equals nothing
Matching(S, params) ==
  {r \in S : "Name" \in DOMAIN params => r.name = params["Name"]}

\* OFFSET @offset ROWS [FETCH NEXT @limit ROWS ONLY]
Window(sorted, paging, offset, limit) ==
  CASE paging = "none" -> sorted
    [] paging = "offset" -> SubSeq(sorted, offset + 1, Len(sorted))
    [] OTHER -> SubSeq(sorted, offset + 1,
                       IF offset + limit < Len(sorted) THEN offset + limit ELSE Len(sorted))

\* SQL Server rejects FETCH NEXT n ROWS with n < 1 (error 10744)
Rejects10744(paging, limit) == paging = "offset-fetch" /\ limit < 1

\* GET base, for the query string the client has in hand
List(base) ==
  LET q == input.query
      key == RouteKey("get", base, FALSE)
      meta == Served(key)
      params == ListParams(meta, q)
      found == Matching(rows[TableOf(meta)], params)
      answer(code, list) ==
        Response(key, code, NoRow, "select", TRUE, PathBody(0), FALSE)
          @@ [query |-> q, text |-> ListText(meta, q), params |-> params,
              list |-> list]
  IN /\ input.fn = "list"
     /\ HasHandler(routes, key)
     /\ IF Rejects10744(Paging(q), LimitOf(q))
        THEN resp' = answer(500, <<>>)
        ELSE \E sorted \in SortedSeqs(found, meta, OrderCol(meta, q), OrderDir(meta, q)) :
               resp' = answer(200, Window(sorted, Paging(q), OffsetOf(q), LimitOf(q)))
     /\ UNCHANGED <<rows, nextKey, supVars, connections, generator, sideVars>>

\* configurations whose objects are listed
ListConfigs ==
  { <<Conn(Endpoint(<<"hr">>), <<Employees, Notes>>)>> }

\* rows the tables hold when the server starts: keys 1..ListRows, names a, b
\* and NULL
SampleRows ==
  {[key |-> i,
    name |-> IF i % 3 = 0 THEN NullValue ELSE IF i % 2 = 1 THEN "a" ELSE "b",
    amount |-> NoAmount] : i \in 1..ListRows}

\* the query strings a client sends
ListQueries ==
  Queries({"-", "a", Evil},
          { <<>>, <<"Name", ".">> \o Str.desc, <<"Name", ".">> \o Str.DESC,
            <<"Name", ".">> \o Str.asc, <<Evil, ".">> \o Str.desc,
            <<"Id", ".">> \o Str.desc },
          { <<>>, <<"-", "1">>, <<"0">>, <<"2">>, <<"x">> },
          { <<>>, <<"0">>, <<"1">>, <<"-", "3">> })

ListInit ==
  /\ connections \in ListConfigs
  /\ generator \in Generators
  /\ SupInit
  /\ rows = [o \in ObjIds |-> SampleRows]
  /\ nextKey = [o \in ObjIds |-> ListRows]
  /\ resp = [method |-> "none", base |-> <<>>, keyed |-> FALSE, status |-> 0,
             obj |-> <<0, 0>>]
  /\ \E q \in ListQueries : input = [fn |-> "list", query |-> q]
  /\ output = NoOutput
  /\ exec = <<>>
  /\ holders = EmptyFcn

ListNext ==
  \/ \E t \in Targets : ConnectSucceeds(t)
  \/ \E t \in Targets : RegisterObject(t)
  \/ \E t \in Targets : CompleteDiscovery(t)
  \/ \E b \in Bases : List(b)

\* The list handler's behaviours, over tables that hold rows
ListSpec == ListInit /\ [][ListNext]_vars

----------------------------------------------------------------------------
\* Claims about the list operation

Listed == resp.method = "get" /\ ~resp.keyed /\ resp.obj # <<0, 0>>

TextTokens == {resp.text[i] : i \in 1..Len(resp.text)}

\* the fixed tokens of the three statement texts (offset and limit are the
\* names of the two paging parameters)
SqlKeywords ==
  {"SELECT * FROM", "[", "]", ".", "WHERE", "=", "@", "AND", "ORDER BY", "ASC",
   "DESC", "OFFSET", "ROWS", "FETCH NEXT", "ROWS ONLY", "offset", "limit"}

\* the names the catalog gave for the object
CatalogNames(o) ==
  Cols(o) \cup {o.schema[i] : i \in 1..Len(o.schema)}
          \cup {o.table[i] : i \in 1..Len(o.table)}

\* the identifiers of the text: the tokens written between [ and ]
Identifiers ==
  {resp.text[i] : i \in {j \in 2..Len(resp.text) : resp.text[j - 1] = "["}}

\* C12: every identifier in the text of the list statement is a name from
\* the object's catalog metadata; a parameter that names no column, and every
\* value of the request, never appears in the text; filter values, limit and
\* offset reach the statement as bound parameters only.
C12_InjectionBoundary ==
  Listed =>
    /\ Identifiers \subseteq CatalogNames(RespObject)
    /\ \A i \in 1..Len(resp.text) :
         resp.text[i] = "ORDER BY" => resp.text[i + 2] \in Cols(RespObject)
    /\ TextTokens \subseteq SqlKeywords \cup CatalogNames(RespObject)
    /\ Evil \notin TextTokens
    /\ resp.query.name # "-" =>
         ("Name" \in DOMAIN resp.params /\ resp.params["Name"] = resp.query.name)
    /\ \A n \in DOMAIN resp.params :
         /\ n \in Cols(RespObject) \cup {"offset", "limit"}
         /\ \E i \in 2..Len(resp.text) : resp.text[i - 1] = "@" /\ resp.text[i] = n

C12_Witness ==
  /\ Listed
  /\ resp.status = 200
  /\ resp.query.name = Evil
  /\ resp.query.unknown
  /\ resp.query.order # <<>> /\ resp.query.order[1] = Evil
  /\ DOMAIN resp.params = {"Name", "offset", "limit"}

\* the ORDER BY clause of the text: its column and its direction
OrderClause ==
  LET i == CHOOSE j \in 1..Len(resp.text) : resp.text[j] = "ORDER BY"
  IN [col |-> resp.text[i + 2], dir |-> resp.text[i + 4]]

\* the column the request's order names, and its direction suffix
NamedColumn == SplitDot(resp.query.order)[1]

Suffix ==
  IF Len(SplitDot(resp.query.order)) >= 2 THEN SplitDot(resp.query.order)[2] ELSE <<>>

DefaultColumn ==
  IF RespObject.type # "VIEW" /\ RespObject.pk # <<>> THEN RespObject.pk[1]
  ELSE RespObject.columns[1]

SortsAsRequested(descending) ==
  Listed =>
    IF resp.query.order = <<>> \/ ~\E c \in Cols(RespObject) : NamedColumn = <<c>>
    THEN OrderClause = [col |-> DefaultColumn, dir |-> "ASC"]
    ELSE /\ <<OrderClause.col>> = NamedColumn
         /\ OrderClause.dir = (IF Suffix \in descending THEN "DESC" ELSE "ASC")

\* C13: when order is absent or names no column of the object, the statement
\* orders by the primary key column (the first column when there is no key)
\* ascending, whatever the direction suffix; when it names a column, it orders
\* by that column, descending only for the suffix desc.
C13_SortDefault == SortsAsRequested({Str.desc})

\* C13 (amended): the same, the direction being descending exactly when the
\* suffix is desc in any letter case (desc, DESC, ...).
C13_SortDefaultAnyCase == SortsAsRequested({Str.desc, Str.DESC})

C13_Witness ==
  /\ Listed
  /\ resp.status = 200
  /\ resp.query.order # <<>> /\ resp.query.order[1] = Evil /\ Suffix = Str.desc
  /\ RespObject.pk # <<>>
  /\ Len(resp.list) >= 2 /\ resp.list[1].key < resp.list[2].key

\* the filtered rows in an order the database may give them
OrderedRows ==
  SortedSeqs({r \in rows[resp.obj] : resp.query.name # "-" => r.name = resp.query.name},
             RespMeta, OrderClause.col, OrderClause.dir)

\* the rows after the first off rows, at most lim of them (all when lim < 0)
Page(sorted, off, lim) ==
  LET rest == IF Len(sorted) > off THEN Len(sorted) - off ELSE 0
      n == IF lim >= 0 /\ lim < rest THEN lim ELSE rest
  IN [i \in 1..n |-> sorted[off + i]]

Unpaged == LimitOf(resp.query) < 0 /\ OffsetOf(resp.query) = 0

\* C14: the text always has an ORDER BY; it has no offset/fetch clause exactly
\* when limit < 0 and the clamped offset is 0, and then the answer is all the
\* filtered rows in order; otherwise the answer is the window of the ordered,
\* filtered rows after offset rows, of at most limit rows.
C14_Pagination ==
  Listed =>
    /\ "ORDER BY" \in TextTokens
    /\ Unpaged <=> "OFFSET" \notin TextTokens
    /\ resp.status = 200
    /\ Unpaged => resp.list \in OrderedRows
    /\ resp.list \in {Page(sorted, OffsetOf(resp.query), LimitOf(resp.query)) :
                        sorted \in OrderedRows}

\* the part of C14 that holds: every request but those with limit = 0
C14_HoldsForNonZeroLimit ==
  Listed => (LimitOf(resp.query) # 0 => C14_Pagination)

C14_NonZeroWitness ==
  /\ Listed
  /\ resp.query.limit = <<"2">> /\ resp.query.offset = <<"1">>
  /\ resp.query.name = "-" /\ resp.query.order = <<>>
  /\ RespObject.pk # <<>>
  /\ Len(resp.list) = 2 /\ resp.list[1].key = 2 /\ resp.list[2].key = 3

----------------------------------------------------------------------------
\* Staging-table batches in flight: MaxInFlight requests arrive, numbered in
\* the order of their arrival, each served once.
\* pool.request().query(sqlText) takes a
\* connection of the pool for itself until the batch ends; the statements of
\* batches on different connections interleave in the database. #out is a
\* local temporary table: it belongs to the session (connection) that made it.

Requests == 1..MaxInFlight

\* the connections of the pool (the driver opens up to 10: never fewer than
\* the batches in flight here)
Sessions == 1..MaxInFlight

Idle ==
  [pc |-> "idle", session |-> 0, method |-> "none", base |-> <<>>, key |-> 0,
   name |-> "-", own |-> {}, out |-> {}, failed |-> FALSE, foreign |-> FALSE]

InFlight(i) == exec[i].pc \notin {"idle", "done"}

\* the connection the pool hands out: the connections are interchangeable,
\* the free one with the least number stands for any free one
FreeSession ==
  CHOOSE s \in Sessions :
    /\ \A j \in Requests : InFlight(j) => exec[j].session # s
    /\ \A u \in 1..(s - 1) : \E j \in Requests : InFlight(j) /\ exec[j].session = u

\* a plausible slip: a global temporary table (##out), one for all sessions
HolderScope_Global(session) == 0

\* the scope the name #out is resolved in
HolderScope(session) == session

Holder(i) == HolderScope(exec[i].session)

HolderExists(i) == Holder(i) \in DOMAIN holders

\* request i touches the holder its session sees: whose is it
TouchesForeign(i) == HolderExists(i) /\ holders[Holder(i)].owner # i

Without(f, x) == [y \in DOMAIN f \ {x} |-> f[y]]

StageBody(i) == [key |-> exec[i].key, name |-> exec[i].name, amount |-> NoAmount,
                 other |-> FALSE]

StageKey(i) == RouteKey(exec[i].method, exec[i].base, exec[i].method = "delete")

\* the handler builds a staging-table batch and sends it
StageBegin(i, base, method, k, name) ==
  LET key == RouteKey(method, base, method = "delete")
      meta == Served(key)
      body == [key |-> 0, name |-> name, amount |-> NoAmount, other |-> FALSE]
      pending == {j \in Requests : InFlight(j) /\ exec[j].method = "post"
                                      /\ exec[j].base = base}
  IN /\ exec[i].pc = "idle"
     /\ \A j \in 1..(i - 1) : exec[j].pc # "idle"
     /\ HasHandler(routes, key)
     /\ \/ method = "post" /\ InsertStrategy(meta, body) = "staging"
              /\ nextKey[TableOf(meta)] + Cardinality(pending) < MaxKey
        \/ method = "delete" /\ DeleteStrategy(meta) = "staging"
     /\ \E s \in Sessions :
          /\ s = FreeSession
          /\ exec' = [exec EXCEPT ![i] =
                        [Idle EXCEPT !.pc = "drop", !.session = s, !.method = method,
                                     !.base = base,
                                     !.key = IF method = "delete" THEN k ELSE 0,
                                     !.name = IF method = "post" THEN name ELSE "-"]]
     /\ UNCHANGED <<connections, generator, supVars, dbVars, input, output, holders>>

\* IF OBJECT_ID('tempdb..#out') IS NOT NULL DROP TABLE #out;
StageDropIfExists(i) ==
  /\ exec[i].pc = "drop"
  /\ holders' = IF HolderExists(i) THEN Without(holders, Holder(i)) ELSE holders
  /\ exec' = [exec EXCEPT ![i].pc = "create",
                          ![i].foreign = @ \/ TouchesForeign(i)]
  /\ UNCHANGED <<connections, generator, supVars, dbVars, input, output>>

\* SELECT TOP 0 ... INTO #out FROM ... WHERE 1 = 0;  (fails when #out exists)
StageCreate(i) ==
  /\ exec[i].pc = "create"
  /\ IF HolderExists(i)
     THEN /\ exec' = [exec EXCEPT ![i].pc = "respond", ![i].failed = TRUE]
          /\ UNCHANGED holders
     ELSE /\ holders' = (Holder(i) :> [owner |-> i, rows |-> {}]) @@ holders
          /\ exec' = [exec EXCEPT ![i].pc = "dml"]
  /\ UNCHANGED <<connections, generator, supVars, dbVars, input, output>>

\* INSERT ... OUTPUT inserted.* INTO #out / DELETE ... OUTPUT deleted.* INTO #out
StageDml(i) ==
  LET meta == Served(StageKey(i))
      tbl == TableOf(meta)
      o == CatalogOf(meta)
      newKey == InsertedKey(o, StageBody(i), nextKey[tbl])
      row == [key |-> newKey, name |-> BoundValue(o, "Name", NameOf(StageBody(i))),
              amount |-> NoAmount]
      hit == RowsWithKey(rows[tbl], exec[i].key)
      affected == IF exec[i].method = "post" THEN {row} ELSE hit
  IN /\ exec[i].pc = "dml"
     /\ IF ~HolderExists(i)
        THEN /\ exec' = [exec EXCEPT ![i].pc = "respond", ![i].failed = TRUE]
             /\ UNCHANGED <<rows, nextKey, holders>>
        ELSE /\ rows' = [rows EXCEPT ![tbl] = IF exec[i].method = "post"
                                              THEN @ \cup {row} ELSE @ \ hit]
             /\ nextKey' = [nextKey EXCEPT ![tbl] = IF exec[i].method = "post"
                                                    THEN newKey ELSE @]
             /\ holders' = [holders EXCEPT ![Holder(i)].rows = @ \cup affected]
             /\ exec' = [exec EXCEPT ![i].pc = "select", ![i].own = affected,
                                     ![i].foreign = @ \/ TouchesForeign(i)]
     /\ UNCHANGED <<connections, generator, supVars, resp, input, output>>

\* SELECT * FROM #out;
StageSelect(i) ==
  /\ exec[i].pc = "select"
  /\ IF ~HolderExists(i)
     THEN exec' = [exec EXCEPT ![i].pc = "respond", ![i].failed = TRUE]
     ELSE exec' = [exec EXCEPT ![i].pc = "droplast",
                               ![i].out = holders[Holder(i)].rows,
                               ![i].foreign = @ \/ TouchesForeign(i)]
  /\ UNCHANGED <<connections, generator, supVars, dbVars, input, output, holders>>

\* DROP TABLE #out;
StageDrop(i) ==
  /\ exec[i].pc = "droplast"
  /\ IF ~HolderExists(i)
     THEN /\ exec' = [exec EXCEPT ![i].pc = "respond", ![i].failed = TRUE]
          /\ UNCHANGED holders
     ELSE /\ holders' = Without(holders, Holder(i))
          /\ exec' = [exec EXCEPT ![i].pc = "respond",
                                  ![i].foreign = @ \/ TouchesForeign(i)]
  /\ UNCHANGED <<connections, generator, supVars, dbVars, input, output>>

\* request.query settles: the handler answers and the connection goes back
\* to the pool
StageRespond(i) ==
  LET e == exec[i]
      code == IF e.failed THEN 500
              ELSE IF e.method = "post" THEN 201
              ELSE IF e.out = {} THEN 404 ELSE 200
      row == IF e.failed \/ e.out = {} THEN NoRow ELSE CHOOSE r \in e.out : TRUE
  IN /\ e.pc = "respond"
     /\ resp' = Response(StageKey(i), code, row, "staging", TRUE, StageBody(i),
                         e.own # {})
                  @@ [own |-> e.own, out |-> e.out, failed |-> e.failed]
     /\ exec' = [exec EXCEPT ![i] = [Idle EXCEPT !.pc = "done"]]
     /\ UNCHANGED <<connections, generator, supVars, rows, nextKey, input, output,
                    holders>>

\* one target whose tables have enabled triggers
StageConfigs == { <<Conn(Endpoint(<<"hr">>), <<AuditLog, Orders>>)>> }

StageInit ==
  /\ connections \in StageConfigs
  /\ generator \in Generators
  /\ SupInit
  /\ rows = [o \in ObjIds |-> {[key |-> 1, name |-> "b", amount |-> NoAmount]}]
  /\ nextKey = [o \in ObjIds |-> 1]
  /\ resp = [method |-> "none", base |-> <<>>, keyed |-> FALSE, status |-> 0,
             strategy |-> "none", obj |-> <<0, 0>>]
  /\ input = NoInput
  /\ output = NoOutput
  /\ exec = [i \in Requests |-> Idle]
  /\ holders = EmptyFcn

StageNext ==
  \/ \E t \in Targets : ConnectSucceeds(t)
  \/ \E t \in Targets : RegisterObject(t)
  \/ \E t \in Targets : CompleteDiscovery(t)
  \/ \E i \in Requests, b \in Bases, m \in {"post", "delete"}, k \in Keys, n \in Names :
       StageBegin(i, b, m, k, n)
  \/ \E i \in Requests : StageDropIfExists(i)
  \/ \E i \in Requests : StageCreate(i)
  \/ \E i \in Requests : StageDml(i)
  \/ \E i \in Requests : StageSelect(i)
  \/ \E i \in Requests : StageDrop(i)
  \/ \E i \in Requests : StageRespond(i)

\* The staging-table batches of concurrent requests, statement by statement
StageSpec == StageInit /\ [][StageNext]_vars

----------------------------------------------------------------------------
\* Claims about the staging holder

Staged == resp.strategy = "staging" /\ resp.obj # <<0, 0>>

\* C17: concurrent staging-table requests on the connections of one pool
\* never read, drop or write a holder another execution created, and each is
\* answered with exactly the rows its own statement affected.
C17_HolderIsolation ==
  /\ \A i \in Requests : ~exec[i].foreign /\ ~exec[i].failed
  /\ \A i \in Requests : exec[i].pc \in {"droplast", "respond"} => exec[i].out = exec[i].own
  /\ Staged =>
       /\ ~resp.failed
       /\ resp.out = resp.own
       /\ resp.own # {} => resp.body \in resp.own
       /\ resp.own = {} => resp.status = 404

C17_Witness ==
  \E i \in Requests, j \in Requests :
    /\ i # j
    /\ exec[i].pc = "select" /\ exec[j].pc = "select"
    /\ exec[i].own # {} /\ exec[j].own # {}
    /\ exec[i].base = exec[j].base
    /\ exec[i].method # exec[j].method

----------------------------------------------------------------------------
\* Identity of an object in the registry

\* the route base registerRoutes gives object k of target t
ObjectBase(t, k) == RouteBase(EndpointOrApi(connections[t]), Objects(t)[k].table)

\* object k of target t has been through registerRoutes
IsRegistered(t, k) == RegisteredKeys(t, k) # {}

\* two different objects, both registered
BothRegistered(o, p) ==
  o # p /\ IsRegistered(o[1], o[2]) /\ IsRegistered(p[1], p[2])

\* every route of the object is answered by a handler of that object
ServedByOwnHandler(t, k) ==
  \A key \in RegisteredKeys(t, k) : IsObject(EffectiveHandler(routes, key), t, k)

\* the schema entry under the object's document key is the object's own
HoldsOwnEntry(t, k) ==
  /\ ObjectName(t, k) \in DOMAIN schemas
  /\ schemas[ObjectName(t, k)] = SchemaEntry(TableMeta(generator, t, k, 0))

\* C21: distinct discovered objects never share an identity in the registry:
\* any two different registered objects (of different targets, of different
\* schemas of one target, or with names that differ in where an underscore
\* falls) have different document keys and different route bases, every
\* route of an object is answered by that object's handler, and once a
\* target is connected each of its objects holds its own schema entry.
C21_DistinctIdentities ==
  /\ \A o \in ObjIds, p \in ObjIds :
       BothRegistered(o, p) =>
         /\ ObjectName(o[1], o[2]) # ObjectName(p[1], p[2])
         /\ ObjectBase(o[1], o[2]) # ObjectBase(p[1], p[2])
  /\ \A o \in ObjIds : ServedByOwnHandler(o[1], o[2])
  /\ \A o \in ObjIds : Connected(o[1]) => HoldsOwnEntry(o[1], o[2])

\* what does hold: objects whose (endpoint, table name) pairs differ have
\* different route bases, and an object whose document key no other object
\* has holds its own schema entry once its target is connected
C21_HoldsForDistinctNames ==
  /\ \A o \in ObjIds, p \in ObjIds :
       (BothRegistered(o, p)
          /\ <<EndpointOrApi(connections[o[1]]), Objects(o[1])[o[2]].table>> #
             <<EndpointOrApi(connections[p[1]]), Objects(p[1])[p[2]].table>>)
         => ObjectBase(o[1], o[2]) # ObjectBase(p[1], p[2])
  /\ \A o \in ObjIds :
       (Connected(o[1]) /\ NameIsUnique(o[1], o[2])) => HoldsOwnEntry(o[1], o[2])

====
